---- MODULE Spec2Model ----
(***************************************************************************)
(* Model of src/tree.py: the LRC parser (parse_lrc), the frame renderer    *)
(* (_get_tree_line_content, draw_tree, strip_ansi) and the animation loop  *)
(* (animate).                                                              *)
(*                                                                         *)
(* Three state machines share the variable tuple:                          *)
(*   Spec      - animate(): one action per statement group of the loop,    *)
(*               a clock read in milliseconds, KeyboardInterrupt as an     *)
(*               action that may fire between any two steps.               *)
(*   SpecDraw  - draw_tree(): one action per printed line; strings are     *)
(*               sequences of characters, ANSI codes included.             *)
(*   SpecParse - parse_lrc(): open, then one action per line of the file.  *)
(*   SpecLive  - Spec with weak fairness of the loop's own statements.      *)
(* The random module is a seeded generator whose state is the variable rng.*)
(* Times are integers in milliseconds (the code's float seconds * 1000).   *)
(***************************************************************************)
EXTENDS Integers, Sequences, FiniteSets, TLC

VARIABLES
    \* ---- animate() ----
    pc,                \* position in animate()
    LYRICS_TIMED,      \* module-level lyric table: sequence of [offset, text]
    now,               \* what time.time() returns, in ms
    start_time,        \* animate(): start_time
    elapsed_time,      \* animate(): elapsed_time
    next_lyric_index,  \* animate(): next_lyric_index
    visible_lyrics,    \* animate(): visible_lyrics (the scroll buffer)
    sleep_duration,    \* argument of the last time.sleep() call
    admitted,          \* history: every text appended to visible_lyrics, in order
    drawn,             \* argument of the last draw_tree() call
    stdout_msg,        \* last message animate() itself printed
    intr_pc,           \* position at which KeyboardInterrupt was raised, or "none"
    \* ---- draw_tree() ----
    d_pc,              \* position in draw_tree()
    SONG_TITLE,        \* module-level title (character sequence)
    ARTIST,            \* module-level artist (character sequence)
    current_lyrics_list, \* draw_tree's argument
    content_idx,       \* draw_tree: loop variable of the content rows
    tree_row,          \* index passed to the last _get_tree_line_content call
    tree_line_content, \* what that call returned
    out_line,          \* the last line printed
    rng,               \* state of the random module's generator
    \* ---- parse_lrc() ----
    p_pc,              \* position in parse_lrc()
    open_result,       \* outcome of open(filepath)
    nread,             \* number of lines read from the file so far
    line,              \* the line being processed (before strip)
    song_title,        \* parse_lrc: song_title
    artist,            \* parse_lrc: artist
    lyrics_with_timestamps, \* parse_lrc: lyrics_with_timestamps
    retval             \* value returned by parse_lrc, or the exception raised

avars == <<pc, LYRICS_TIMED, now, start_time, elapsed_time, next_lyric_index,
           visible_lyrics, sleep_duration, admitted, drawn, stdout_msg, intr_pc>>
dvars == <<d_pc, SONG_TITLE, ARTIST, current_lyrics_list, content_idx,
           tree_row, tree_line_content, out_line, rng>>
pvars == <<p_pc, open_result, nread, line, song_title, artist,
           lyrics_with_timestamps, retval>>
vars == <<avars, dvars, pvars>>

-----------------------------------------------------------------------------
(* Generic helpers *)

Min(a, b) == IF a <= b THEN a ELSE b
Max(a, b) == IF a >= b THEN a ELSE b

\* Python: [x] * n  and  " " * n  (n <= 0 gives the empty sequence)
Rep(x, n) == [i \in 1..Max(0, n) |-> x]

\* Python: s[:n] for n >= 0
Take(s, n) == SubSeq(s, 1, Min(n, Len(s)))

\* Python: s[n:] for n >= 0 (0-based n)
Drop(s, n) == SubSeq(s, n + 1, Len(s))

-----------------------------------------------------------------------------
(* Program constants of tree.py *)

HEIGHT == 20
WIDTH == 40
SEPARATOR_WIDTH == 6
TOTAL_TREE_BODY_LINES == 1 + (HEIGHT \div 2) + 3
LYRICS_FRAME_WIDTH == 56

\* sleep arguments of animate(), in ms
TICK_MS == 100
FLOOR_MS == 10

-----------------------------------------------------------------------------
(* animate() *)

\* Bounds of the animation model
MaxTime == 7000       \* clock readings are capped here (past every offset)
MaxEntries == 13      \* length of the long lyric table (> buffer capacity)

Entry(o, t) == [offset |-> o, text |-> t]

\* Lyric tables the parser can have produced (offsets in ms).
SpecExampleTable == <<Entry(1000, "a"), Entry(2000, "b"), Entry(5000, "c")>>
OutOfOrderTable == <<Entry(2000, "x"), Entry(1000, "y"), Entry(1000, "x")>>
LongTable == [i \in 1..MaxEntries |-> Entry(300 * (i - 1), ToString(i))]
LyricTables == {<<>>, SpecExampleTable, OutOfOrderTable, LongTable}

\* Values time.time() can have when animate() is entered.
StartEpochs == {0, 1000}

\* Extra time an iteration can take beyond the requested sleep: nothing, the
\* time of a draw, or a long stall of the process.
Overruns == {0, 50, 5000}

\* animate(): available_content_lines and max_lyrics_lines
available_content_lines == TOTAL_TREE_BODY_LINES - 2
max_lyrics_lines == available_content_lines - 1

\* Variant of the trim that drops the newest entry (pop() for pop(0)).
PopNewest(buf) ==
    IF Len(buf) > max_lyrics_lines THEN SubSeq(buf, 1, Len(buf) - 1) ELSE buf

\* lines 288-292: append, then drop the oldest when over capacity
PopAfterAppend(buf) == IF Len(buf) > max_lyrics_lines THEN Tail(buf) ELSE buf
AppendAndTrim(buf, t) == PopAfterAppend(Append(buf, t))

\* line 278
ElapsedSince(t, start) == t - start

\* lines 282-285: the admission test
IsDue(idx, elapsed) ==
    /\ idx < Len(LYRICS_TIMED)
    /\ LYRICS_TIMED[idx + 1].offset <= elapsed

\* Variant of the cursor step that skips an entry.
AdvanceCursorSkipping(idx) == idx + 2

\* line 294
AdvanceCursor(idx) == idx + 1

\* Variant of the sleep policy without the floor for a non-positive wait.
SleepForNoFloor(idx, elapsed) ==
    IF idx < Len(LYRICS_TIMED)
    THEN Min(LYRICS_TIMED[idx + 1].offset - elapsed, TICK_MS)
    ELSE TICK_MS

\* lines 300-313: the argument of time.sleep
SleepFor(idx, elapsed) ==
    IF idx < Len(LYRICS_TIMED)
    THEN LET d == LYRICS_TIMED[idx + 1].offset - elapsed
         IN  IF d > 0 THEN Min(d, TICK_MS) ELSE FLOOR_MS
    ELSE TICK_MS

TimedLoop == {"sample", "admit", "draw", "timectl", "sleep"}
NoLyricsLoop == {"nl_draw", "nl_sleep"}

AInit ==
    /\ pc = "start"
    /\ LYRICS_TIMED \in LyricTables
    /\ now \in StartEpochs
    /\ start_time = 0
    /\ elapsed_time = 0
    /\ next_lyric_index = 0
    /\ visible_lyrics = <<>>
    /\ sleep_duration = 0
    /\ admitted = <<>>
    /\ drawn = <<>>
    /\ stdout_msg = "none"
    /\ intr_pc = "none"

\* lines 256-259: no lyrics -> announce the tree-only animation
StartNoLyrics ==
    /\ pc = "start"
    /\ LYRICS_TIMED = <<>>
    /\ stdout_msg' = "tree only"
    /\ pc' = "nl_draw"
    /\ UNCHANGED <<dvars, pvars, LYRICS_TIMED, now, start_time, elapsed_time, next_lyric_index,
                   visible_lyrics, sleep_duration, admitted, drawn, intr_pc>>

\* line 264
NoLyricsDraw ==
    /\ pc = "nl_draw"
    /\ drawn' = Rep("", max_lyrics_lines)
    /\ pc' = "nl_sleep"
    /\ UNCHANGED <<dvars, pvars, LYRICS_TIMED, now, start_time, elapsed_time, next_lyric_index,
                   visible_lyrics, sleep_duration, admitted, stdout_msg, intr_pc>>

\* line 265
NoLyricsSleep ==
    /\ pc = "nl_sleep"
    /\ sleep_duration' = TICK_MS
    /\ \E over \in Overruns : now' = Min(now + TICK_MS + over, MaxTime)
    /\ pc' = "nl_draw"
    /\ UNCHANGED <<dvars, pvars, LYRICS_TIMED, start_time, elapsed_time, next_lyric_index,
                   visible_lyrics, admitted, drawn, stdout_msg, intr_pc>>

\* lines 267-274
StartTimed ==
    /\ pc = "start"
    /\ LYRICS_TIMED # <<>>
    /\ start_time' = now
    /\ next_lyric_index' = 0
    /\ visible_lyrics' = Rep("", Max(0, max_lyrics_lines - 3))
    /\ pc' = "sample"
    /\ UNCHANGED <<dvars, pvars, LYRICS_TIMED, now, elapsed_time, sleep_duration, admitted,
                   drawn, stdout_msg, intr_pc>>

\* line 278
Sample ==
    /\ pc = "sample"
    /\ elapsed_time' = ElapsedSince(now, start_time)
    /\ pc' = "admit"
    /\ UNCHANGED <<dvars, pvars, LYRICS_TIMED, now, start_time, next_lyric_index, visible_lyrics,
                   sleep_duration, admitted, drawn, stdout_msg, intr_pc>>

\* lines 282-294
Admit ==
    /\ pc = "admit"
    /\ IF IsDue(next_lyric_index, elapsed_time)
       THEN LET new_lyric == LYRICS_TIMED[next_lyric_index + 1].text
            IN  /\ visible_lyrics' = AppendAndTrim(visible_lyrics, new_lyric)
                /\ admitted' = Append(admitted, new_lyric)
                /\ next_lyric_index' = AdvanceCursor(next_lyric_index)
       ELSE UNCHANGED <<visible_lyrics, admitted, next_lyric_index>>
    /\ pc' = "draw"
    /\ UNCHANGED <<dvars, pvars, LYRICS_TIMED, now, start_time, elapsed_time, sleep_duration,
                   drawn, stdout_msg, intr_pc>>

\* line 297
Draw ==
    /\ pc = "draw"
    /\ drawn' = visible_lyrics
    /\ pc' = "timectl"
    /\ UNCHANGED <<dvars, pvars, LYRICS_TIMED, now, start_time, elapsed_time, next_lyric_index,
                   visible_lyrics, sleep_duration, admitted, stdout_msg, intr_pc>>

\* lines 300-313: choose the sleep argument
TimeControl ==
    /\ pc = "timectl"
    /\ sleep_duration' = SleepFor(next_lyric_index, elapsed_time)
    /\ pc' = "sleep"
    /\ UNCHANGED <<dvars, pvars, LYRICS_TIMED, now, start_time, elapsed_time, next_lyric_index,
                   visible_lyrics, admitted, drawn, stdout_msg, intr_pc>>

\* time.sleep(sleep_duration): the clock moves on by at least the argument
Sleep ==
    /\ pc = "sleep"
    /\ \E over \in Overruns : now' = Min(now + sleep_duration + over, MaxTime)
    /\ pc' = "sample"
    /\ UNCHANGED <<dvars, pvars, LYRICS_TIMED, start_time, elapsed_time, next_lyric_index,
                   visible_lyrics, sleep_duration, admitted, drawn, stdout_msg,
                   intr_pc>>

\* line 316: the sign-off message
SIGN_OFF == "Animation stopped. Merry Christmas!"

\* The try block of animate() spans lines 276-313 only.
InsideTry(p) == p \in TimedLoop

\* KeyboardInterrupt arrives; lines 315-316 handle it when raised inside the try
Interrupt ==
    /\ pc \in {"start"} \cup TimedLoop \cup NoLyricsLoop
    /\ intr_pc' = pc
    /\ IF InsideTry(pc)
       THEN /\ stdout_msg' = SIGN_OFF
            /\ pc' = "returned"
       ELSE /\ stdout_msg' = stdout_msg
            /\ pc' = "raised"
    /\ UNCHANGED <<dvars, pvars, LYRICS_TIMED, now, start_time, elapsed_time, next_lyric_index,
                   visible_lyrics, sleep_duration, admitted, drawn>>

ANext ==
    \/ StartNoLyrics
    \/ NoLyricsDraw
    \/ NoLyricsSleep
    \/ StartTimed
    \/ Sample
    \/ Admit
    \/ Draw
    \/ TimeControl
    \/ Sleep
    \/ Interrupt

-----------------------------------------------------------------------------
(* Strings: a string is a sequence of characters.  ESC stands for the one  *)
(* character \033; STAR, ORNAMENT, FOLIAGE, BLOCK, LQUOTE, RQUOTE, NEWLINE *)
(* and the BOX_ names each stand for the one character the source uses.    *)

ESC == "ESC"

GREEN == <<ESC, "[", "9", "2", "m">>
RED == <<ESC, "[", "9", "1", "m">>
YELLOW == <<ESC, "[", "9", "3", "m">>
BLUE == <<ESC, "[", "9", "4", "m">>
CYAN == <<ESC, "[", "9", "6", "m">>
MAGENTA == <<ESC, "[", "9", "5", "m">>
WHITE == <<ESC, "[", "9", "7", "m">>
RESET == <<ESC, "[", "0", "m">>
ORANGE == <<ESC, "[", "3", "8", ";", "5", ";", "2", "0", "8", "m">>
GOLD == <<ESC, "[", "3", "8", ";", "5", ";", "2", "2", "0", "m">>
PINK == <<ESC, "[", "3", "8", ";", "5", ";", "2", "0", "0", "m">>

ALL_COLORS == <<RED, YELLOW, BLUE, CYAN, MAGENTA, ORANGE, GOLD, PINK>>

BOX_TOP_LEFT == "BOX_TOP_LEFT"
BOX_TOP_RIGHT == "BOX_TOP_RIGHT"
BOX_BOTTOM_LEFT == "BOX_BOTTOM_LEFT"
BOX_BOTTOM_RIGHT == "BOX_BOTTOM_RIGHT"
BOX_HORIZONTAL == "BOX_HORIZONTAL"
BOX_VERTICAL == "BOX_VERTICAL"

Spaces(n) == Rep(" ", n)

\* Python: pat in s, at 1-based position i
OccursAt(s, pat, i) ==
    /\ i + Len(pat) - 1 <= Len(s)
    /\ \A k \in 1..Len(pat) : s[i + k - 1] = pat[k]

\* Python: pat in s
Contains(s, pat) == \E i \in 1..Len(s) : OccursAt(s, pat, i)

RECURSIVE ReplaceFrom(_, _, _, _)
ReplaceFrom(s, pat, new, i) ==
    IF i > Len(s) THEN <<>>
    ELSE IF OccursAt(s, pat, i)
         THEN new \o ReplaceFrom(s, pat, new, i + Len(pat))
         ELSE <<s[i]>> \o ReplaceFrom(s, pat, new, i + 1)

\* Python: s.replace(pat, new) for a non-empty pat
Replace(s, pat, new) == ReplaceFrom(s, pat, new, 1)

\* Python: s.center(width) (CPython pads left with marg/2 + (marg & width & 1))
PyCenter(s, width) ==
    IF Len(s) >= width THEN s
    ELSE LET marg == width - Len(s)
             left == (marg \div 2)
                     + (IF marg % 2 = 1 /\ width % 2 = 1 THEN 1 ELSE 0)
         IN  Spaces(left) \o s \o Spaces(marg - left)

\* Variant of strip_ansi that removes nothing.
strip_nothing(s) == s

RECURSIVE StripFrom(_, _)
\* re.sub(r"\033\[.*?m", "", s) from position i on: at an ESC [ that is
\* followed somewhere by an m, drop everything up to the first such m.
StripFrom(s, i) ==
    IF i > Len(s) THEN <<>>
    ELSE IF /\ s[i] = ESC
            /\ i + 1 <= Len(s)
            /\ s[i + 1] = "["
            /\ \E j \in (i + 2)..Len(s) : s[j] = "m"
         THEN LET j == CHOOSE j \in (i + 2)..Len(s) :
                          /\ s[j] = "m"
                          /\ \A k \in (i + 2)..(j - 1) : s[k] # "m"
              IN  StripFrom(s, j + 1)
         ELSE <<s[i]>> \o StripFrom(s, i + 1)

\* lines 46-48
strip_ansi(s) == StripFrom(s, 1)

-----------------------------------------------------------------------------
(* _get_tree_line_content *)

\* Bound of the drawing model: the seeds the random module can start from
MaxSeed == 40

\* The random module is a deterministic generator with a hidden state; each
\* draw advances it.  The generator here is a small linear congruential one.
RNG_MODULUS == 65537
RngNext(x) == (x * 75 + 74) % RNG_MODULUS

\* random.random() < 0.2, read off the generator state after the draw
RandomBelowFifth(x) == (x % 100) < 20

\* random.choice(ALL_COLORS), read off the generator state after the draw
RandomColor(x) == ALL_COLORS[(x % Len(ALL_COLORS)) + 1]

\* Variant of the left padding that forgets to halve the margin.
LeftPadFull(w) == WIDTH - w

\* lines 134, 139: the left margin that centres w glyphs
LeftPad(w) == (WIDTH - w) \div 2

RECURSIVE BranchFrom(_, _, _)
\* lines 127-132: the glyphs k..branch_width of a branch, drawn with the
\* generator in state x; the result carries the generator state afterwards.
BranchFrom(k, branch_width, x) ==
    IF k > branch_width THEN [text |-> <<>>, rng |-> x]
    ELSE LET x1 == RngNext(x)
         IN  IF RandomBelowFifth(x1)
             THEN LET x2 == RngNext(x1)
                      rest == BranchFrom(k + 1, branch_width, x2)
                  IN  [text |-> RandomColor(x2) \o <<"ORNAMENT">> \o GREEN \o rest.text,
                       rng |-> rest.rng]
             ELSE LET rest == BranchFrom(k + 1, branch_width, x1)
                  IN  [text |-> <<"FOLIAGE">> \o rest.text, rng |-> rest.rng]

\* lines 112-141; x is the state of the random generator at the call, the
\* result is the returned string and the state of the generator afterwards.
_get_tree_line_content(lyric_idx, x) ==
    IF lyric_idx = 0
    THEN [text |-> Spaces((WIDTH \div 2) - 1) \o YELLOW \o <<"STAR">> \o RESET,
          rng |-> x]
    ELSE IF lyric_idx >= 1 /\ lyric_idx <= TOTAL_TREE_BODY_LINES - 4
    THEN LET i == (lyric_idx - 1) * 2 + 1
             branch_width == Min(i, WIDTH)
             branch == BranchFrom(1, branch_width, x)
         IN  [text |-> Spaces(LeftPad(branch_width)) \o GREEN \o branch.text \o RESET,
              rng |-> branch.rng]
    ELSE IF lyric_idx >= TOTAL_TREE_BODY_LINES - 3 /\ lyric_idx < TOTAL_TREE_BODY_LINES
    THEN LET trunk_width == HEIGHT \div 4
         IN  [text |-> Spaces(LeftPad(trunk_width)) \o WHITE
                       \o Rep("BLOCK", trunk_width) \o RESET,
              rng |-> x]
    ELSE [text |-> <<>>, rng |-> x]

-----------------------------------------------------------------------------
(* draw_tree *)

content_width == LYRICS_FRAME_WIDTH - 2

\* line 151
formatted_title ==
    <<"LQUOTE">> \o SONG_TITLE \o <<"RQUOTE", " ", "-", " ">> \o ARTIST

\* lines 156-165
CenterLyric(lyric) ==
    LET lyric_width == Len(lyric)
    IN  IF lyric_width < content_width
        THEN LET padding_left == (content_width - lyric_width) \div 2
                 padding_right == content_width - lyric_width - padding_left
             IN  Spaces(padding_left) \o lyric \o Spaces(padding_right)
        ELSE Take(lyric, content_width)

\* lines 153-165
white_lyrics ==
    [k \in 1..Len(current_lyrics_list) |->
        WHITE \o CenterLyric(current_lyrics_list[k]) \o RESET]

\* lines 173-174
title_line == YELLOW \o PyCenter(formatted_title, content_width) \o RESET

\* lines 177-182
available_lyric_lines == available_content_lines - 1
empty_line == Spaces(content_width)
padded_lyrics ==
    Rep(empty_line, available_lyric_lines - Len(white_lyrics)) \o white_lyrics

\* lines 204-214: the panel text of content row idx (0-based)
ContentLine(idx) ==
    IF idx = 0 THEN title_line
    ELSE LET lyric_idx == idx - 1
         IN  IF lyric_idx < Len(padded_lyrics)
             THEN padded_lyrics[lyric_idx + 1]
             ELSE Spaces(content_width)

\* lines 216-226: pad a row that is too narrow
EnsureWidth(content_line) ==
    LET content_line_visible_width == Len(strip_ansi(content_line))
    IN  IF content_line_visible_width < content_width
        THEN LET padding_needed == content_width - content_line_visible_width
             IN  IF Contains(content_line, RESET)
                 THEN Replace(content_line, RESET, Spaces(padding_needed) \o RESET)
                 ELSE content_line \o Spaces(padding_needed)
        ELSE content_line

\* lines 187-188, 199-202, 235-236: the gap between a tree row and the panel
GapAfter(tree_line) ==
    Spaces(WIDTH + SEPARATOR_WIDTH - Len(strip_ansi(tree_line)))

\* lines 189-191 and 237-239
HorizontalBorder(left, right) ==
    <<left>> \o Rep(BOX_HORIZONTAL, LYRICS_FRAME_WIDTH - 2) \o <<right>>

\* Bounds of the drawing inputs: lengths of the long title and the long lyric
LongTitleLen == 60
LongLyricLen == 60

\* Titles: short, one and zero characters short of the panel, too long.
TitleChoices ==
    {<<"X">>, Rep("t", content_width - 7), Rep("t", content_width - 6),
     Rep("t", LongTitleLen)}
ArtistChoices == {<<"Y">>}

\* Buffers animate() can pass: the initial blanks, the no-lyrics list, and a
\* full buffer of short, exactly fitting, too long and coloured texts.
MixedLyrics ==
    <<<<>>, <<"H", "i">>, <<"B", "y", "e">>, Rep("a", content_width - 1),
      Rep("b", content_width), Rep("c", LongLyricLen), <<>>,
      RED \o <<"H", "i">>, <<"B", "a", "b", "y">>, <<>>, <<"H", "i">>>>
LyricListChoices ==
    {Rep(<<>>, max_lyrics_lines - 3), Rep(<<>>, max_lyrics_lines), MixedLyrics}

DInit ==
    /\ d_pc = "top"
    /\ SONG_TITLE \in TitleChoices
    /\ ARTIST \in ArtistChoices
    /\ current_lyrics_list \in LyricListChoices
    /\ rng \in 0..MaxSeed
    /\ content_idx = 0
    /\ tree_row = 0
    /\ tree_line_content = <<>>
    /\ out_line = <<>>

\* lines 186-192: the star row and the top border
DrawTop ==
    /\ d_pc = "top"
    /\ LET got == _get_tree_line_content(0, rng)
           first_tree_line == got.text
           top_padding == GapAfter(first_tree_line)
           top_border == HorizontalBorder(BOX_TOP_LEFT, BOX_TOP_RIGHT)
       IN  /\ tree_row' = 0
           /\ tree_line_content' = first_tree_line
           /\ rng' = got.rng
           /\ out_line' = first_tree_line \o top_padding \o BLUE \o top_border \o RESET
    /\ content_idx' = 0
    /\ d_pc' = "content"
    /\ UNCHANGED <<avars, pvars, SONG_TITLE, ARTIST, current_lyrics_list>>

\* lines 196-230: one content row
DrawContentRow ==
    /\ d_pc = "content"
    /\ content_idx < available_content_lines
    /\ LET tree_line_idx == content_idx + 1
           got == _get_tree_line_content(tree_line_idx, rng)
           tree_line == got.text
           padding == GapAfter(tree_line)
           content_line == EnsureWidth(ContentLine(content_idx))
           frame_line == <<BOX_VERTICAL>> \o content_line \o <<BOX_VERTICAL>>
       IN  /\ tree_row' = tree_line_idx
           /\ tree_line_content' = tree_line
           /\ rng' = got.rng
           /\ out_line' = tree_line \o padding \o BLUE \o frame_line \o RESET
    /\ content_idx' = content_idx + 1
    /\ d_pc' = IF content_idx + 1 < available_content_lines THEN "content" ELSE "bottom"
    /\ UNCHANGED <<avars, pvars, SONG_TITLE, ARTIST, current_lyrics_list>>

\* lines 233-240: the last trunk row and the bottom border
DrawBottom ==
    /\ d_pc = "bottom"
    /\ LET last_tree_line_idx == TOTAL_TREE_BODY_LINES - 1
           got == _get_tree_line_content(last_tree_line_idx, rng)
           last_tree_line == got.text
           bottom_padding == GapAfter(last_tree_line)
           bottom_border == HorizontalBorder(BOX_BOTTOM_LEFT, BOX_BOTTOM_RIGHT)
       IN  /\ tree_row' = last_tree_line_idx
           /\ tree_line_content' = last_tree_line
           /\ rng' = got.rng
           /\ out_line' =
                last_tree_line \o bottom_padding \o BLUE \o bottom_border \o RESET
    /\ d_pc' = "message"
    /\ UNCHANGED <<avars, pvars, SONG_TITLE, ARTIST, current_lyrics_list, content_idx>>

\* lines 243-247: the message under the tree
DrawMessage ==
    /\ d_pc = "message"
    /\ out_line' =
         <<"NEWLINE">> \o Spaces((WIDTH - 15) \div 2) \o RED
         \o <<"M", "e", "r", "r", "y", " ", "C", "h", "r", "i", "s", "t", "m", "a",
              "s", "!">>
         \o RESET
    /\ d_pc' = "done"
    /\ UNCHANGED <<avars, pvars, SONG_TITLE, ARTIST, current_lyrics_list, content_idx,
                   tree_row, tree_line_content, rng>>

DNext ==
    \/ DrawTop
    \/ DrawContentRow
    \/ DrawBottom
    \/ DrawMessage

-----------------------------------------------------------------------------
(* parse_lrc *)

\* Bound of the parser model: the number of lines of the file
MaxFileLines == 2

Digits == {"0", "1", "2", "3", "4", "5", "6", "7", "8", "9"}
DigitValue(ch) ==
    CASE ch = "0" -> 0 [] ch = "1" -> 1 [] ch = "2" -> 2 [] ch = "3" -> 3
      [] ch = "4" -> 4 [] ch = "5" -> 5 [] ch = "6" -> 6 [] ch = "7" -> 7
      [] ch = "8" -> 8 [] ch = "9" -> 9

RECURSIVE int(_)
\* Python: int(s) for a string of decimal digits
int(s) ==
    IF s = <<>> THEN 0
    ELSE 10 * int(SubSeq(s, 1, Len(s) - 1)) + DigitValue(s[Len(s)])

\* Variant of the padding that pads on the left (rjust for ljust).
rjust(s, width, fill) == Rep(fill, width - Len(s)) \o s

\* Python: s.ljust(width, fill)
ljust(s, width, fill) == s \o Rep(fill, width - Len(s))

IsSpace(ch) == ch \in {" ", "TAB", "NEWLINE"}

\* Python: s.strip()
strip(s) ==
    LET kept == {k \in 1..Len(s) : ~IsSpace(s[k])}
    IN  IF kept = {} THEN <<>>
        ELSE SubSeq(s, CHOOSE a \in kept : \A k \in kept : a <= k,
                       CHOOSE b \in kept : \A k \in kept : b >= k)

NoMatch == [matched |-> FALSE]

\* re.match(r"\[<tag>:(.*)\]", s): the tag, then everything up to the last "]"
MatchTag(tag, s) ==
    LET prefix == <<"[">> \o tag \o <<":">>
        closing == {j \in (Len(prefix) + 1)..Len(s) : s[j] = "]"}
    IN  IF OccursAt(s, prefix, 1) /\ closing # {}
        THEN LET j == CHOOSE j \in closing : \A k \in closing : j >= k
             IN  [matched |-> TRUE, group1 |-> SubSeq(s, Len(prefix) + 1, j - 1)]
        ELSE NoMatch

AllDigits(s, from, to) == to <= Len(s) /\ \A k \in from..to : s[k] \in Digits

\* re.match(r"\[(\d{2}):(\d{2})\.(\d{2,3})\](.*)", s)
MatchTimed(s) ==
    IF /\ Len(s) >= 10
       /\ s[1] = "["
       /\ AllDigits(s, 2, 3)
       /\ s[4] = ":"
       /\ AllDigits(s, 5, 6)
       /\ s[7] = "."
       /\ AllDigits(s, 8, 9)
    THEN IF Len(s) >= 11 /\ s[10] \in Digits /\ s[11] = "]"
         THEN [matched |-> TRUE, group1 |-> SubSeq(s, 2, 3), group2 |-> SubSeq(s, 5, 6),
               group3 |-> SubSeq(s, 8, 10), group4 |-> Drop(s, 11)]
         ELSE IF s[10] = "]"
         THEN [matched |-> TRUE, group1 |-> SubSeq(s, 2, 3), group2 |-> SubSeq(s, 5, 6),
               group3 |-> SubSeq(s, 8, 9), group4 |-> Drop(s, 10)]
         ELSE NoMatch
    ELSE NoMatch

\* lines 81-85, in milliseconds
Timestamp(m) ==
    LET minutes == int(m.group1)
        seconds == int(m.group2)
        milliseconds == int(ljust(m.group3, 3, "0"))
    IN  minutes * 60000 + seconds * 1000 + milliseconds

\* lines 62-87: what one line of the file does to (song_title, artist,
\* lyrics_with_timestamps)
ProcessLine(raw, st) ==
    LET stripped == strip(raw)
        artist_match == MatchTag(<<"a", "r">>, stripped)
        title_match == MatchTag(<<"t", "i">>, stripped)
        match == MatchTimed(stripped)
    IN  IF stripped = <<>> THEN st
        ELSE IF artist_match.matched
        THEN [st EXCEPT !.artist = strip(artist_match.group1)]
        ELSE IF title_match.matched
        THEN [st EXCEPT !.song_title = strip(title_match.group1)]
        ELSE IF match.matched
        THEN [st EXCEPT !.lyrics =
                 Append(@, Entry(Timestamp(match), strip(match.group4)))]
        ELSE st

UNKNOWN_SONG == <<"U", "n", "k", "n", "o", "w", "n", " ", "S", "o", "n", "g">>
UNKNOWN_ARTIST == <<"U", "n", "k", "n", "o", "w", "n", " ", "A", "r", "t", "i", "s", "t">>

\* The ways open(filepath) can end, and the parent of each exception class
OpenOutcomes == {"ok", "FileNotFoundError", "PermissionError", "IsADirectoryError"}
ParentClass(e) == IF e \in OpenOutcomes \ {"ok"} THEN "OSError" ELSE "Exception"

\* Python: an except clause naming class c handles an exception of class e
Handles(c, e) == e = c \/ ParentClass(e) = c

\* The lines a file is made of
TimedLine(mm, ss, ff, text) ==
    <<"[">> \o mm \o <<":">> \o ss \o <<".">> \o ff \o <<"]">> \o text
MinuteStrs == {<<"0", "0">>, <<"0", "1">>, <<"1", "2">>}
SecondStrs == {<<"0", "2">>, <<"0", "3">>, <<"5", "9">>}
FractionStrs ==
    {<<"5", "0">>, <<"0", "5">>, <<"5", "0", "0">>, <<"0", "5", "0">>,
     <<"9", "9", "9">>}
TimedLines ==
    {TimedLine(mm, ss, ff, <<"H", "i">>) :
        mm \in MinuteStrs, ss \in SecondStrs, ff \in FractionStrs}
OtherLines ==
    {<<>>,
     <<" ", " ">>,
     <<"[", "a", "r", ":", "S", "i", "a", "]">>,
     <<"[", "t", "i", ":", "S", "n", "o", "w", "m", "a", "n", "]">>,
     <<"[", "a", "r", ":", " ", "Y", " ", "]", " ", "x", "]">>,
     <<" ", " ", "[", "0", "0", ":", "0", "1", ".", "0", "0", "]", " ", "B", "y", "e", " ">>,
     <<"[", "0", "0", ":", "0", "3", ".", "5", "]", "x">>,
     <<"[", "0", "0", ":", "0", "3", ".", "5", "0", "0", "0", "]", "x">>,
     <<"[", "0", "a", ":", "0", "3", ".", "5", "0", "]", "x">>,
     <<"[", "0", "0", ":", "0", "3", ".", "5", "0">>,
     <<"h", "e", "l", "l", "o">>}
FileLines == TimedLines \cup OtherLines

\* lines 56-58
PInit ==
    /\ p_pc = "open"
    /\ open_result \in OpenOutcomes
    /\ nread = 0
    /\ line = <<>>
    /\ song_title = UNKNOWN_SONG
    /\ artist = UNKNOWN_ARTIST
    /\ lyrics_with_timestamps = <<>>
    /\ retval = [kind |-> "none"]

\* line 60: the file opens
OpenOk ==
    /\ p_pc = "open"
    /\ open_result = "ok"
    /\ p_pc' = "read"
    /\ UNCHANGED <<avars, dvars, open_result, nread, line, song_title, artist,
                   lyrics_with_timestamps, retval>>

\* lines 60, 88-93: open raises; the except clause handles it or it propagates
OpenFails ==
    /\ p_pc = "open"
    /\ open_result # "ok"
    /\ IF Handles("FileNotFoundError", open_result)
       THEN /\ retval' = [kind |-> "return", song_title |-> song_title,
                          artist |-> artist, lyrics |-> <<>>]
            /\ p_pc' = "returned"
       ELSE /\ retval' = [kind |-> "raise", exception |-> open_result]
            /\ p_pc' = "raised"
    /\ UNCHANGED <<avars, dvars, open_result, nread, line, song_title, artist,
                   lyrics_with_timestamps>>

\* lines 61-87: the next line of the file
ReadLine ==
    /\ p_pc = "read"
    /\ nread < MaxFileLines
    /\ \E raw \in FileLines :
         LET st == ProcessLine(raw, [song_title |-> song_title, artist |-> artist,
                                     lyrics |-> lyrics_with_timestamps])
         IN  /\ line' = raw
             /\ song_title' = st.song_title
             /\ artist' = st.artist
             /\ lyrics_with_timestamps' = st.lyrics
    /\ nread' = nread + 1
    /\ UNCHANGED <<avars, dvars, p_pc, open_result, retval>>

\* line 95: the file is exhausted
EndOfFile ==
    /\ p_pc = "read"
    /\ retval' = [kind |-> "return", song_title |-> song_title, artist |-> artist,
                  lyrics |-> lyrics_with_timestamps]
    /\ p_pc' = "returned"
    /\ UNCHANGED <<avars, dvars, open_result, nread, line, song_title, artist,
                   lyrics_with_timestamps>>

PNext ==
    \/ OpenOk
    \/ OpenFails
    \/ ReadLine
    \/ EndOfFile

-----------------------------------------------------------------------------
(* Specifications *)

\* The parts of the state a specification does not use stay at these values.
DIdle ==
    /\ d_pc = "idle"
    /\ SONG_TITLE = <<>>
    /\ ARTIST = <<>>
    /\ current_lyrics_list = <<>>
    /\ content_idx = 0
    /\ tree_row = 0
    /\ tree_line_content = <<>>
    /\ out_line = <<>>
    /\ rng = 0

PIdle ==
    /\ p_pc = "idle"
    /\ open_result = "none"
    /\ nread = 0
    /\ line = <<>>
    /\ song_title = <<>>
    /\ artist = <<>>
    /\ lyrics_with_timestamps = <<>>
    /\ retval = [kind |-> "none"]

AIdle ==
    /\ pc = "idle"
    /\ LYRICS_TIMED = <<>>
    /\ now = 0
    /\ start_time = 0
    /\ elapsed_time = 0
    /\ next_lyric_index = 0
    /\ visible_lyrics = <<>>
    /\ sleep_duration = 0
    /\ admitted = <<>>
    /\ drawn = <<>>
    /\ stdout_msg = "none"
    /\ intr_pc = "none"

Init == AInit /\ DIdle /\ PIdle
Next == ANext
Spec == Init /\ [][Next]_vars

\* animate() is one thread: unless it is interrupted, its next statement runs.
LoopStep ==
    \/ StartNoLyrics \/ NoLyricsDraw \/ NoLyricsSleep
    \/ StartTimed \/ Sample \/ Admit \/ Draw \/ TimeControl \/ Sleep
SpecLive == Init /\ [][Next]_vars /\ WF_vars(LoopStep)

InitParse == PInit /\ AIdle /\ DIdle
SpecParse == InitParse /\ [][PNext]_vars

InitDraw == DInit /\ AIdle /\ PIdle
SpecDraw == InitDraw /\ [][DNext]_vars

-----------------------------------------------------------------------------
(* Claims about animate() *)

NextIsDue ==
    /\ next_lyric_index < Len(LYRICS_TIMED)
    /\ LYRICS_TIMED[next_lyric_index + 1].offset <= elapsed_time

\* C1: in timed mode, when draw_tree has just been called in an iteration, no
\* unconsumed entry whose offset is <= the elapsed time sampled at the start of
\* that iteration is left out of the buffer that was drawn.
C1_RenderSeesCaughtUpBuffer == (pc = "timectl") => ~NextIsDue

\* C2: a KeyboardInterrupt received anywhere in the animation loop, in either
\* mode, is caught: the sign-off is printed and animate() returns normally.
C2_InterruptCaughtInBothModes ==
    (intr_pc \in TimedLoop \cup NoLyricsLoop)
        => (pc = "returned" /\ stdout_msg = SIGN_OFF)

\* C3: the scroll buffer never holds more than K = TOTAL_TREE_BODY_LINES - 3
\* entries, and once more than K entries have been admitted it holds exactly
\* the K most recently admitted texts, oldest first.
C3_BufferBoundedFifo ==
    LET K == TOTAL_TREE_BODY_LINES - 3
        N == Len(admitted)
    IN  /\ Len(visible_lyrics) <= K
        /\ N > K => visible_lyrics = SubSeq(admitted, N - K + 1, N)

C3_Witness ==
    /\ Len(admitted) > TOTAL_TREE_BODY_LINES - 3
    /\ pc = "draw"
    /\ visible_lyrics[1] = "3"

\* C8: the sleep at the end of a timed iteration is min(next_offset - elapsed,
\* 100 ms) when an entry remains and that difference is positive, 10 ms when
\* it is not positive, 100 ms when all entries are consumed; so it is always
\* positive and at most 100 ms.
C8_SleepPolicy ==
    (pc = "sleep") =>
        LET remains == next_lyric_index < Len(LYRICS_TIMED)
            wait == LYRICS_TIMED[next_lyric_index + 1].offset - elapsed_time
        IN  /\ ~remains => sleep_duration = 100
            /\ (remains /\ wait <= 0) => sleep_duration = 10
            /\ (remains /\ wait > 0 /\ wait <= 100) => sleep_duration = wait
            /\ (remains /\ wait > 100) => sleep_duration = 100
            /\ sleep_duration > 0
            /\ sleep_duration <= 100

C8_Witness ==
    /\ pc = "sleep"
    /\ sleep_duration = 10
    /\ next_lyric_index < Len(LYRICS_TIMED)
    /\ LYRICS_TIMED[next_lyric_index + 1].offset < elapsed_time

\* C10: the cursor moves only by one, with one admission, never past the end of
\* the table; the texts admitted are the table's texts in file order, each
\* once; unless interrupted the cursor reaches the end of the table, and from
\* then on the buffer does not change.
C10_CursorInFileOrder ==
    /\ [][/\ next_lyric_index' # next_lyric_index
              => /\ next_lyric_index' = next_lyric_index + 1
                 /\ admitted' =
                      Append(admitted, LYRICS_TIMED[next_lyric_index'].text)
          /\ admitted' # admitted => next_lyric_index' = next_lyric_index + 1
          /\ next_lyric_index = Len(LYRICS_TIMED)
              => visible_lyrics' = visible_lyrics]_vars
    /\ [](/\ next_lyric_index <= Len(LYRICS_TIMED)
          /\ admitted = [i \in 1..next_lyric_index |-> LYRICS_TIMED[i].text])
    /\ <>(\/ pc \in {"returned", "raised"}
          \/ next_lyric_index = Len(LYRICS_TIMED))

C10_Witness ==
    /\ LYRICS_TIMED = OutOfOrderTable
    /\ next_lyric_index = Len(LYRICS_TIMED)
    /\ admitted = <<"x", "y", "x">>
    /\ pc = "sleep"

-----------------------------------------------------------------------------
(* Claims about _get_tree_line_content and draw_tree *)

\* What a terminal does with s[k]: an ESC [ control sequence (ESC, "[",
\* parameters of digits and ";", then one final character) takes no column.
IsParameter(ch) == ch \in {"0", "1", "2", "3", "4", "5", "6", "7", "8", "9", ";"}
InControlSequence(s, k) ==
    \E i \in 1..k :
        /\ s[i] = ESC
        /\ i < Len(s)
        /\ s[i + 1] = "["
        /\ \A j \in (i + 2)..(k - 1) : IsParameter(s[j])

\* The number of columns the terminal advances over s
VisibleWidth(s) ==
    Cardinality({k \in 1..Len(s) : s[k] # ESC /\ ~InControlSequence(s, k)})

Count(s, ch) == Cardinality({k \in 1..Len(s) : s[k] = ch})

\* What out_line holds: a line of the frame (top border, content row, bottom
\* border) once the first line is printed and until the message is.
FrameLinePrinted == d_pc \in {"content", "bottom", "message"}
ContentRowPrinted == d_pc \in {"content", "bottom"} /\ content_idx >= 1
TreeLineMade == d_pc \in {"content", "bottom", "message", "done"}

LeftBorders == {BOX_TOP_LEFT, BOX_VERTICAL, BOX_BOTTOM_LEFT}
FirstLeftBorder(s) ==
    CHOOSE k \in 1..Len(s) :
        /\ s[k] \in LeftBorders
        /\ \A j \in 1..(k - 1) : s[j] \notin LeftBorders
LastVertical(s) ==
    CHOOSE k \in 1..Len(s) :
        /\ s[k] = BOX_VERTICAL
        /\ \A j \in (k + 1)..Len(s) : s[j] # BOX_VERTICAL

\* C4 (as claimed): every string _get_tree_line_content returns has visible
\* width exactly WIDTH, being padded on the left and on the right.
C4_TreeRowFillsWidth ==
    TreeLineMade => VisibleWidth(tree_line_content) = WIDTH

\* C4 (amended): the visible width of the returned string depends only on the
\* row and is at most WIDTH; the row is padded on the left only: WIDTH/2 for
\* the star, WIDTH/2 - 1 + r for branch row r, (WIDTH + HEIGHT/4)/2 for a
\* trunk row.
C4_TreeRowLeftPaddedOnly ==
    TreeLineMade =>
        LET w == VisibleWidth(tree_line_content)
        IN  /\ w <= WIDTH
            /\ tree_row = 0 => w = WIDTH \div 2
            /\ (tree_row >= 1 /\ tree_row <= HEIGHT \div 2)
                 => w = (WIDTH \div 2) - 1 + tree_row
            /\ tree_row > HEIGHT \div 2 => w = (WIDTH + (HEIGHT \div 4)) \div 2
            /\ tree_line_content[Len(tree_line_content)] = "m"

C4_Witness ==
    /\ TreeLineMade
    /\ tree_row = HEIGHT \div 2
    /\ Count(tree_line_content, "ORNAMENT") >= 4
    /\ Count(tree_line_content, "FOLIAGE") >= 10

\* C5: every content row of the panel (title row and lyric rows) has visible
\* width exactly LYRICS_FRAME_WIDTH - 2 between its two vertical borders,
\* whatever the title, artist and lyric strings.
C5_PanelRowsHaveInnerWidth ==
    ContentRowPrinted =>
        LET a == FirstLeftBorder(out_line)
            b == LastVertical(out_line)
        IN  /\ a < b
            /\ VisibleWidth(SubSeq(out_line, a + 1, b - 1)) = LYRICS_FRAME_WIDTH - 2

\* C9: on every line of the frame the panel's left border glyph is preceded
\* by exactly WIDTH + SEPARATOR_WIDTH visible characters.
C9_PanelStartsAtFixedColumn ==
    FrameLinePrinted =>
        /\ \E k \in 1..Len(out_line) : out_line[k] \in LeftBorders
        /\ VisibleWidth(SubSeq(out_line, 1, FirstLeftBorder(out_line) - 1))
             = WIDTH + SEPARATOR_WIDTH

C9_Witness ==
    /\ FrameLinePrinted
    /\ tree_row = (HEIGHT \div 2) - 1
    /\ Count(tree_line_content, "ORNAMENT") >= 3
    /\ Count(tree_line_content, ";") >= 2
    /\ Count(tree_line_content, "FOLIAGE") >= 10

-----------------------------------------------------------------------------
(* Claims about parse_lrc *)

\* C6: when the lyric file cannot be opened, for whatever reason, parse_lrc
\* does not raise: it returns the default title and artist and no entries.
C6_OpenFailureReturnsDefaults ==
    (open_result # "ok" /\ p_pc # "open") =>
        /\ p_pc = "returned"
        /\ retval = [kind |-> "return", song_title |-> UNKNOWN_SONG,
                     artist |-> UNKNOWN_ARTIST, lyrics |-> <<>>]

\* A line of the shape [MM:SS.f]text, f of two or three digits
TimedShape(s) ==
    /\ Len(s) >= 10
    /\ s[1] = "[" /\ s[2] \in Digits /\ s[3] \in Digits /\ s[4] = ":"
    /\ s[5] \in Digits /\ s[6] \in Digits /\ s[7] = "."
    /\ s[8] \in Digits /\ s[9] \in Digits
    /\ \/ s[10] = "]"
       \/ Len(s) >= 11 /\ s[10] \in Digits /\ s[11] = "]"

\* The offset C7 claims for such a line, in ms
ClaimedOffset(s) ==
    LET MM == 10 * DigitValue(s[2]) + DigitValue(s[3])
        SS == 10 * DigitValue(s[5]) + DigitValue(s[6])
        F == IF s[10] = "]"
             THEN 100 * DigitValue(s[8]) + 10 * DigitValue(s[9])
             ELSE 100 * DigitValue(s[8]) + 10 * DigitValue(s[9]) + DigitValue(s[10])
    IN  MM * 60000 + SS * 1000 + F

\* C7: reading a line [MM:SS.f]text appends exactly one entry, whose offset is
\* MM*60000 + SS*1000 + F ms, F being f read as thousandths (a two-digit f is
\* padded on the right with one zero).
C7_TimedLineOffset ==
    [][(nread' = nread + 1 /\ TimedShape(line'))
         => /\ Len(lyrics_with_timestamps') = Len(lyrics_with_timestamps) + 1
            /\ SubSeq(lyrics_with_timestamps', 1, Len(lyrics_with_timestamps))
                 = lyrics_with_timestamps
            /\ lyrics_with_timestamps'[Len(lyrics_with_timestamps')].offset
                 = ClaimedOffset(line')]_vars

C7_Witness ==
    /\ p_pc = "read"
    /\ line = TimedLine(<<"0", "1">>, <<"0", "2">>, <<"5", "0">>, <<"H", "i">>)
    /\ Len(lyrics_with_timestamps) = 2
    /\ lyrics_with_timestamps[2] = Entry(62500, <<"H", "i">>)

====
